---- MODULE Spec2Model ----
(***************************************************************************)
(* Egg Game: the N-player round-resolution engine of src/game.js           *)
(* (PlayerState, GameEngine and the callers of registerMove in a local     *)
(* game: the human player's buttons and the CPU timeout), and the 2-player *)
(* variants of src/unnamed/part_000.  variant names the engine that runs:  *)
(*   "nplayer"     src/game.js, a local game against one or two CPUs       *)
(*   "online"      src/game.js, the host of an online game and the engine  *)
(*                 of one guest, the replica                               *)
(*   "duelOnline"  part_000 lines 1-494 with isOnline = true               *)
(*   "duelLocal"   part_000 lines 1-494 with isOnline = false              *)
(*   "duelCpu"     part_000 lines 495-896                                  *)
(* The variables of the engines that do not run keep their initial value.  *)
(*                                                                         *)
(* In the online game conns is the host's map of open connections, channel *)
(* the state messages on their way to the replica, sent the number of      *)
(* calls of net.broadcast and the state of the last one, joins the number  *)
(* of connections opened so far, replica the guest's engine and            *)
(* replicaButtons whether the guest's action buttons are enabled.  A move  *)
(* message and a connection arrive at the host with any content: the host  *)
(* handlers have no condition on them.  outbox holds the move messages of  *)
(* the guest's own buttons on their way to the host, each with the turn of *)
(* the guest's engine when it was sent (the message itself carries none);  *)
(* it is followed in SpecSession, where a connection can also close and a  *)
(* state message can arrive without its participants.                      *)
(*                                                                         *)
(* JavaScript null is the string "null".  A log line is a tuple of strings *)
(* whose first element names the template of the line in the source.       *)
(***************************************************************************)
EXTENDS Integers, Sequences, FiniteSets, TLC

VARIABLES variant, players, order, myId, isHost, turn, isGameOver, logs, timers, resolved,
          player, opponent, myMove, oppMove,
          conns, channel, sent, joins, replica, replicaButtons, outbox

vars == <<variant, players, order, myId, isHost, turn, isGameOver, logs, timers, resolved,
          player, opponent, myMove, oppMove,
          conns, channel, sent, joins, replica, replicaButtons, outbox>>

(* -------- bounds of the model -------- *)
\* rounds that may be resolved: commits are accepted while turn <= MaxTurn
MaxTurn == 3
\* in a game with two CPUs the commits are accepted while turn <= MaxTurnRoyale
MaxTurnRoyale == 2
\* in an online game the host's buttons are used while turn <= MaxTurnOnline, and the
\* move messages of the guest are accepted for one round more
MaxTurnOnline == 2
\* connections the host accepts in an online game
MaxJoins == 2
\* state messages on their way to the guest: the host takes a step while fewer are
MaxInFlight == 1
\* the long game of SpecLongRoyale: the rounds of its opening, which is followed by one
\* round more
OpeningRounds == 2
\* move messages of the guest on their way to the host: the guest sends while fewer are
MaxOutbox == 1

(* -------- CONFIG and MOVES -------- *)
MAX_HP == 5
EGG_TIMER == 2
SAUSAGE_LIMIT == 2

ATTACK == "attack"
EGG == "egg"
SAUSAGE == "sausage"
BARRIER == "barrier"
MOVES == <<ATTACK, EGG, SAUSAGE, BARRIER>>
Move == {MOVES[i] : i \in 1..Len(MOVES)}

Null == "null"

\* the cpu counts a local game is started with: one CPU, and the default of two
CpuCounts == {1, 2}
CpuId(i) == IF i = 1 THEN "cpu1" ELSE "cpu2"
CpuName(i) == IF i = 1 THEN "CPU 1" ELSE "CPU 2"
MyName == "Player"
\* the peer ids of an online game: the host's room id and the guest's id
HostId == "host"
GuestId == "g1"
GuestName == "Guest"
\* an id that is no key of the participant map
UnknownId == "nobody"

(* -------- helpers on sequences -------- *)
Range(s) == {s[i] : i \in 1..Len(s)}

RECURSIVE Concat(_)
Concat(ss) == IF ss = <<>> THEN <<>> ELSE Head(ss) \o Concat(Tail(ss))

\* s.map(f)

\* Array.from(this.players.values()).filter(p => !p.isDead), as ids in Map order
Living(ps, ord) == SelectSeq(ord, LAMBDA id : ~ps[id].isDead)

(* -------- PlayerState -------- *)
PlayerState(id, name, isCpu) ==
    [id |-> id, name |-> name, isCpu |-> isCpu, hp |-> MAX_HP, eggs |-> <<>>,
     history |-> <<>>, isDead |-> FALSE, currentMove |-> Null, targetId |-> Null,
     hasEggSnapshot |-> FALSE]

addEgg(p, isReflected) ==
    [p EXCEPT !.eggs = Append(@, [turnsRemaining |-> EGG_TIMER, isReflected |-> isReflected])]

\* a bug: a reflected egg is cured like any other
curableEggs_Any(p, onlyCurable) == p.eggs

\* the eggs removeEgg selects for removal
curableEggs(p, onlyCurable) ==
    SelectSeq(p.eggs, LAMBDA e : ~(onlyCurable /\ e.isReflected))

\* removeEgg returns [p |-> the player after the call, ok |-> the return value]
removeEgg(p, onlyCurable) ==
    IF Len(p.eggs) = 0 THEN [p |-> p, ok |-> FALSE]
    ELSE IF Len(curableEggs(p, onlyCurable)) = 0 THEN [p |-> p, ok |-> FALSE]
    ELSE [p |-> [p EXCEPT !.eggs = SelectSeq(@, LAMBDA e : e \notin Range(curableEggs(p, onlyCurable)))],
          ok |-> TRUE]

\* a bug: an egg explodes when its timer reaches 0
Exploded_AtZero(eggs) == \E i \in 1..Len(eggs) : eggs[i].turnsRemaining <= 0

\* this.eggs.some(egg => egg.turnsRemaining < 0)
Exploded(eggs) == \E i \in 1..Len(eggs) : eggs[i].turnsRemaining < 0

\* a bug: an explosion marks the holder dead and leaves its hp
updateEggs_KeepsHp(p) ==
    LET ticked == [i \in 1..Len(p.eggs) |-> [p.eggs[i] EXCEPT !.turnsRemaining = @ - 1]]
        exploded == Exploded(ticked)
    IN  [p |-> IF exploded THEN [p EXCEPT !.eggs = ticked, !.isDead = TRUE]
                           ELSE [p EXCEPT !.eggs = ticked],
         exploded |-> exploded]

\* updateEggs returns [p |-> the player after the call, exploded |-> the return value]
updateEggs(p) ==
    LET ticked == [i \in 1..Len(p.eggs) |-> [p.eggs[i] EXCEPT !.turnsRemaining = @ - 1]]
        exploded == Exploded(ticked)
    IN  [p |-> IF exploded THEN [p EXCEPT !.eggs = ticked, !.hp = 0, !.isDead = TRUE]
                           ELSE [p EXCEPT !.eggs = ticked],
         exploded |-> exploded]

\* a bug: the last move alone decides
canUseSausage_LastOnly(p) ==
    IF Len(p.history) < SAUSAGE_LIMIT THEN TRUE
    ELSE p.history[Len(p.history)] # SAUSAGE

canUseSausage(p) ==
    IF Len(p.history) < SAUSAGE_LIMIT THEN TRUE
    ELSE ~(\A i \in (Len(p.history) - SAUSAGE_LIMIT + 1)..Len(p.history) : p.history[i] = SAUSAGE)

(* -------- GameEngine: an engine state is a record E of the variables -------- *)
\* the name logged for a player's target: "" when targetId is null or unknown
TargetName(ps, p) ==
    IF p.targetId # Null /\ p.targetId \in DOMAIN ps THEN ps[p.targetId].name ELSE ""

\* a bug: the snapshot never records an egg, so an egg is added to one already held
HasEgg_Never(p) == FALSE

\* p.hasEggSnapshot = p.eggs.length > 0
HasEgg(p) == Len(p.eggs) > 0

\* a bug: the history keeps the move of the last round alone
Recorded_LastOnly(p) == <<p.currentMove>>

\* p.history.push(p.currentMove)
Recorded(p) == Append(p.history, p.currentMove)

\* resolveTurn, 1. SNAPSHOT
Snapshot(E) ==
    LET living == Living(E.players, E.order)
        snap(p) == [p EXCEPT !.hasEggSnapshot = HasEgg(p),
                             !.history = Recorded(p)]
    IN  [E EXCEPT
           !.players = [id \in DOMAIN E.players |->
                          IF id \in Range(living) THEN snap(E.players[id]) ELSE E.players[id]],
           !.logs = E.logs \o <<<<"Turn", ToString(E.turn)>>>> \o
                    [k \in 1..Len(living) |-> <<"Move", E.players[living[k]].name,
                                                 E.players[living[k]].currentMove,
                                                 TargetName(E.players, E.players[living[k]])>>]]

\* a bug: the reflect decision reads the live egg list, after the cure
DefHasEgg_Live(defender) == Len(defender.eggs) > 0

\* const defHasEgg = defender.hasEggSnapshot
DefHasEgg(defender) == defender.hasEggSnapshot

\* a bug: Sausage takes the place of Barrier in the Egg interaction
EggReflected_BySausage(defAction) == defAction = SAUSAGE

\* the Egg interaction reflects the egg onto the attacker
EggReflected(defAction) == defAction = BARRIER

\* resolveTurn, 2. INTERACTION: one attacker against one defender.
\* S = [players, logs, damageMap, eggMap, refEggMap]
InteractOne(S, defId, atkId) ==
    LET defender == S.players[defId]
        attacker == S.players[atkId]
        defAction == defender.currentMove
        defHasEgg == DefHasEgg(defender)
        atkAction == attacker.currentMove
    IN  IF atkAction = ATTACK THEN
            IF defAction = SAUSAGE /\ ~defHasEgg THEN
                [S EXCEPT !.logs = Append(@, <<"ReflectsAttack", defender.name, attacker.name>>),
                          !.damageMap[atkId] = @ + 1]
            ELSE IF defAction = BARRIER THEN
                [S EXCEPT !.logs = Append(@, <<"BarrierFails", defender.name>>),
                          !.damageMap[defId] = @ + 1]
            ELSE
                [S EXCEPT !.logs = Append(@, <<"Attacks", attacker.name, defender.name>>),
                          !.damageMap[defId] = @ + 1]
        ELSE IF atkAction = EGG THEN
            IF EggReflected(defAction) THEN
                [S EXCEPT !.logs = Append(@, <<"ReflectsEgg", defender.name, attacker.name>>),
                          !.refEggMap[atkId] = @ + 1]
            ELSE IF defAction = SAUSAGE /\ ~defHasEgg THEN
                [S EXCEPT !.logs = Append(@, <<"PlantsEgg", attacker.name, defender.name>>),
                          !.eggMap[defId] = @ + 1]
            ELSE
                [S EXCEPT !.logs = Append(@, <<"PlantsEgg", attacker.name, defender.name>>),
                          !.eggMap[defId] = @ + 1]
        ELSE S

\* a bug: only the first attacker of a defender, in the order of the participant map,
\* interacts with it
AttackersLoop_FirstOnly(S, defId, attackers) ==
    IF attackers = <<>> THEN S ELSE InteractOne(S, defId, Head(attackers))

\* attackers.forEach(attacker => ...)
RECURSIVE AttackersLoop(_, _, _)
AttackersLoop(S, defId, attackers) ==
    IF attackers = <<>> THEN S
    ELSE AttackersLoop(InteractOne(S, defId, Head(attackers)), defId, Tail(attackers))

\* the Sausage self-cure of one defender
SelfCure(S, defId) ==
    LET defender == S.players[defId]
    IN  IF defender.currentMove = SAUSAGE /\ defender.hasEggSnapshot THEN
            LET r == removeEgg(defender, TRUE)
            IN  IF r.ok THEN [S EXCEPT !.players[defId] = r.p,
                                       !.logs = Append(@, <<"Cured", defender.name>>)]
                ELSE S
        ELSE S

\* a bug: a participant that targets itself is its own attacker
Aims_Self(p, defId) == p.targetId = defId

\* p.targetId === defender.id && p.id !== defender.id
Aims(p, defId) == p.targetId = defId /\ p.id # defId

\* the body of livingPlayers.forEach(defender => ...)
DefenderStep(S, defId, living) ==
    LET S1 == SelfCure(S, defId)
        attackers == SelectSeq(living, LAMBDA id : Aims(S1.players[id], defId))
    IN  AttackersLoop(S1, defId, attackers)

RECURSIVE DefendersLoop(_, _, _)
DefendersLoop(S, defenders, living) ==
    IF defenders = <<>> THEN S
    ELSE DefendersLoop(DefenderStep(S, Head(defenders), living), Tail(defenders), living)

Interaction(E, living) ==
    DefendersLoop([players |-> E.players, logs |-> E.logs,
                   damageMap |-> [id \in Range(living) |-> 0],
                   eggMap |-> [id \in Range(living) |-> 0],
                   refEggMap |-> [id \in Range(living) |-> 0]],
                  living, living)

RECURSIVE AddEggs(_, _, _)
AddEggs(p, n, isReflected) ==
    IF n <= 0 THEN p ELSE AddEggs(addEgg(p, isReflected), n - 1, isReflected)

\* a bug: two incoming eggs are added, three kill
MultipleEggs_Three(totalIncoming) == totalIncoming >= 3

\* totalIncoming >= 2
MultipleEggs(totalIncoming) == totalIncoming >= 2

\* a bug: the stacking rule reads the snapshot alone, so a cured egg still stacks
StackedEgg_IgnoresCure(p, totalIncoming) == totalIncoming > 0 /\ p.hasEggSnapshot

\* a bug: the stacking rule needs two incoming eggs
StackedEgg_NeedsTwo(p, totalIncoming) ==
    totalIncoming > 1 /\ p.hasEggSnapshot /\ Len(p.eggs) > 0

\* totalIncoming > 0 && p.hasEggSnapshot && p.eggs.length > 0
StackedEgg(p, totalIncoming) == totalIncoming > 0 /\ p.hasEggSnapshot /\ Len(p.eggs) > 0

\* the egg rules of the apply phase on a player p whose damage is already subtracted
ApplyEggs(p, newEggs, refEggs) ==
    LET totalIncoming == newEggs + refEggs
    IN  IF MultipleEggs(totalIncoming) THEN
            [p |-> [p EXCEPT !.hp = 0], damaged |-> p.hp,
             logs |-> <<<<"MultipleEggs", p.name>>>>]
        ELSE IF StackedEgg(p, totalIncoming) THEN
            [p |-> [p EXCEPT !.hp = 0], damaged |-> p.hp,
             logs |-> <<<<"DoubleEgg", p.name>>>>]
        ELSE
            [p |-> AddEggs(AddEggs(p, newEggs, FALSE), refEggs, TRUE), damaged |-> p.hp,
             logs |-> <<>>]

\* a bug: several attackers on one participant cost it a single hp
ApplyOne_SingleHit(p0, damage, newEggs, refEggs) ==
    ApplyEggs([p0 EXCEPT !.hp = @ - (IF damage > 0 THEN 1 ELSE 0)], newEggs, refEggs)

\* resolveTurn, 3. APPLY for one player:
\* [p |-> player after, damaged |-> hp after the subtraction of the damage, logs |-> lines logged]
ApplyOne(p0, damage, newEggs, refEggs) ==
    ApplyEggs([p0 EXCEPT !.hp = @ - damage], newEggs, refEggs)

\* S = [players, logs, damageMap, eggMap, refEggMap, damaged]
Apply(S, living) ==
    LET one(id) == ApplyOne(S.players[id], S.damageMap[id], S.eggMap[id], S.refEggMap[id])
    IN  [players |-> [id \in DOMAIN S.players |->
                        IF id \in Range(living) THEN one(id).p ELSE S.players[id]],
         logs |-> S.logs \o Concat([k \in 1..Len(living) |-> one(living[k]).logs]),
         damageMap |-> S.damageMap, eggMap |-> S.eggMap, refEggMap |-> S.refEggMap,
         damaged |-> [id \in Range(living) |-> one(id).damaged]]

\* a bug: the match ends only when nobody is left
GameSet_OnlyDraw(survivors) == Len(survivors) < 1

\* survivors.length <= 1
GameSet(survivors) == Len(survivors) <= 1

\* checkDeaths(reason) on a record with players, order, logs and isGameOver
checkDeaths(E, reason) ==
    LET living == Living(E.players, E.order)
        ps == [id \in DOMAIN E.players |->
                 IF id \in Range(living) /\ E.players[id].hp <= 0
                 THEN [E.players[id] EXCEPT !.isDead = TRUE] ELSE E.players[id]]
        defeated == SelectSeq(living, LAMBDA id : E.players[id].hp <= 0)
        logs1 == E.logs \o [k \in 1..Len(defeated) |-> <<"Defeated", E.players[defeated[k]].name, reason>>]
        survivors == Living(ps, E.order)
        winner == IF Len(survivors) = 1 THEN ps[survivors[1]].name ELSE "No One (Draw)"
    IN  IF GameSet(survivors)
        THEN [E EXCEPT !.players = ps, !.isGameOver = TRUE,
                       !.logs = Append(logs1, <<"GameSet", winner>>)]
        ELSE [E EXCEPT !.players = ps, !.logs = logs1]

\* resolveTurn, 5. TIMERS
Timers(E) ==
    LET alive == Living(E.players, E.order)
        one(id) == updateEggs(E.players[id])
    IN  [E EXCEPT
           !.players = [id \in DOMAIN E.players |->
                          IF id \in Range(alive) THEN one(id).p ELSE E.players[id]],
           !.logs = E.logs \o
                    LET exploded == SelectSeq(alive, LAMBDA id : one(id).exploded)
                    IN  [k \in 1..Len(exploded) |-> <<"Exploded", E.players[exploded[k]].name>>]]

\* setTimeout in queueCpuMoves: the callback is queued with the cpus it captured
queueCpuMoves(E) ==
    IF ~E.isHost /\ Cardinality(DOMAIN E.players) > 0 /\ ~E.players[E.myId].isCpu THEN E
    ELSE LET cpus == SelectSeq(E.order, LAMBDA id : E.players[id].isCpu /\ ~E.players[id].isDead)
         IN  IF Len(cpus) = 0 THEN E ELSE [E EXCEPT !.timers = Append(@, cpus)]

\* resolveTurn, 6. CLEANUP: the pending moves of the participants of the round are cleared
Cleanup(E6, living) ==
    [id \in DOMAIN E6.players |->
       IF id \in Range(living)
       THEN [E6.players[id] EXCEPT !.currentMove = Null, !.targetId = Null]
       ELSE E6.players[id]]

\* if (this.isHost) this.queueCpuMoves()
QueueIfHost(E) == IF E.isHost THEN queueCpuMoves(E) ELSE E

\* onStateChange('gameover', winner) of checkDeaths, on the engine E it leaves: the
\* notification with the state an observer reads in the engine when it is called
GameOverNotice(E) ==
    IF GameSet(Living(E.players, E.order))
    THEN <<[type |-> "gameover", turn |-> E.turn, isGameOver |-> E.isGameOver,
            players |-> E.players]>>
    ELSE <<>>

\* the notifications of one resolveTurn, in the order of their calls: the two death
\* checks, then onStateChange('update') after the cleanup and turn++
Notified(E, E4, E6, cleaned) ==
    GameOverNotice(E4) \o GameOverNotice(E6) \o
    <<[type |-> "update", turn |-> E.turn + 1, isGameOver |-> E6.isGameOver,
       players |-> cleaned]>>

\* the end of resolveTurn: turn++, and what this resolution computed on the way is kept
EndOfTurn(E, living, S2, S3, E4, E5, E6, cleaned) ==
    QueueIfHost([E6 EXCEPT
                   !.players = cleaned,
                   !.turn = @ + 1,
                   !.resolved = <<[turn |-> E.turn, living |-> living, before |-> E.players,
                                   overBefore |-> E.isGameOver,
                                   logStart |-> Len(E.logs),
                                   damageMap |-> S2.damageMap, eggMap |-> S2.eggMap,
                                   refEggMap |-> S2.refEggMap,
                                   afterInteraction |-> S2.players,
                                   hpAfterDamage |-> S3.damaged,
                                   afterApply |-> S3.players,
                                   afterInstant |-> E4.players,
                                   overAfterInstant |-> E4.isGameOver,
                                   logsAfterInstant |-> Len(E4.logs),
                                   afterTimers |-> E5.players,
                                   notified |-> Notified(E, E4, E6, cleaned),
                                   after |-> cleaned]>>])

\* resolveTurn from 5. TIMERS on
FromTimers(E, living, S2, S3, E4, E5, E6) ==
    EndOfTurn(E, living, S2, S3, E4, E5, E6, Cleanup(E6, living))

\* resolveTurn from 4. DEATH CHECK (Instant) on
FromInstant(E, living, S2, S3, E4, E5) ==
    FromTimers(E, living, S2, S3, E4, E5, checkDeaths(E5, "Timer"))

\* resolveTurn from 3. APPLY on
FromApply(E, living, E1, S2, S3, E4) == FromInstant(E, living, S2, S3, E4, Timers(E4))

\* resolveTurn from 2. INTERACTION on
FromInteraction(E, living, E1, S2, S3) ==
    FromApply(E, living, E1, S2, S3,
              checkDeaths([E1 EXCEPT !.players = S3.players, !.logs = S3.logs], "Instant"))

\* resolveTurn from 1. SNAPSHOT on
FromSnapshot(E, living, E1, S2) == FromInteraction(E, living, E1, S2, Apply(S2, living))

\* resolveTurn on the participants living at its start
ResolveLiving(E, living, E1) == FromSnapshot(E, living, E1, Interaction(E1, living))

resolveTurn(E) == ResolveLiving(E, Living(E.players, E.order), Snapshot(E))

\* serializeState()
serializeState(E) ==
    [turn |-> E.turn, isGameOver |-> E.isGameOver, logs |-> E.logs,
     players |-> [k \in 1..Len(E.order) |->
                    LET p == E.players[E.order[k]]
                    IN  [id |-> p.id, name |-> p.name, hp |-> p.hp, eggs |-> p.eggs,
                         history |-> p.history, isDead |-> p.isDead, isCpu |-> p.isCpu]]]

\* a bug: the history of the snapshot is not taken over
Synced_NoHistory(p, pData) ==
    [p EXCEPT !.hp = pData.hp, !.eggs = pData.eggs, !.isDead = pData.isDead]

\* applyState, "Sync mutable state"
Synced(p, pData) ==
    [p EXCEPT !.hp = pData.hp, !.eggs = pData.eggs,
              !.history = pData.history, !.isDead = pData.isDead]

\* data.players.forEach(pData => ...) of applyState
RECURSIVE applyPlayers(_, _)
applyPlayers(E, pDatas) ==
    IF pDatas = <<>> THEN E
    ELSE LET pData == Head(pDatas)
             known == pData.id \in DOMAIN E.players
             p == IF known THEN E.players[pData.id]
                  ELSE PlayerState(pData.id, pData.name, pData.isCpu)
             synced == Synced(p, pData)
         IN  applyPlayers([E EXCEPT
                             !.players = [id \in DOMAIN E.players \cup {pData.id} |->
                                            IF id = pData.id THEN synced ELSE E.players[id]],
                             !.order = IF known THEN @ ELSE Append(@, pData.id)],
                          Tail(pDatas))

\* applyState(data), from data.players.forEach on: a data without players throws there
SyncPlayers(E, data) ==
    IF "players" \in DOMAIN data THEN applyPlayers(E, data.players) ELSE E

\* applyState(data)
applyState(E, data) ==
    SyncPlayers([E EXCEPT !.turn = data.turn, !.isGameOver = data.isGameOver,
                          !.logs = data.logs],
                data)

\* broadcastState(): net.broadcast sends the state on every open connection; the model
\* follows the messages to the guest
broadcastState(E) ==
    IF ~E.isHost THEN E
    ELSE [E EXCEPT !.sent = [n |-> @.n + 1, state |-> serializeState(E)],
                   !.channel = IF GuestId \in E.conns THEN Append(@, serializeState(E)) ELSE @]

\* a bug: a guest registers its own move in its own engine
ClientCommit_Never(E, playerId) == FALSE

\* !this.isHost && playerId === this.myId
ClientCommit(E, playerId) == ~E.isHost /\ playerId = E.myId

\* a bug: the round is resolved as soon as one living participant has committed
AllReady_Any(E) ==
    \E id \in Range(Living(E.players, E.order)) : E.players[id].currentMove # Null

\* livingPlayers.every(p => p.currentMove !== null)
AllReady(E) ==
    \A id \in Range(Living(E.players, E.order)) : E.players[id].currentMove # Null

\* a bug: the state is broadcast before the round is resolved
ResolveAndSync_SyncFirst(E) == resolveTurn(broadcastState(E))

\* this.resolveTurn(); if (this.isHost) this.broadcastState();
ResolveAndSync(E) == broadcastState(resolveTurn(E))

\* a bug: the move of a dead participant is registered
NoActor_UnknownOnly(E, playerId) == playerId \notin DOMAIN E.players

\* !p || p.isDead
NoActor(E, playerId) ==
    playerId \notin DOMAIN E.players \/ E.players[playerId].isDead

registerMove(E, playerId, action, targetId) ==
    IF ClientCommit(E, playerId) THEN
        [E EXCEPT !.logs = Append(@, <<"Waiting">>)]
    ELSE IF NoActor(E, playerId) THEN E
    ELSE LET E1 == [E EXCEPT !.players[playerId].currentMove = action,
                             !.players[playerId].targetId = targetId]
         IN  IF AllReady(E1) THEN ResolveAndSync(E1) ELSE E1

\* the moves decideCpuMove can return
decideCpuMove(cpuState) ==
    IF (\E i \in 1..Len(cpuState.eggs) : ~cpuState.eggs[i].isReflected) /\ canUseSausage(cpuState)
    THEN {SAUSAGE}
    ELSE IF ~canUseSausage(cpuState) THEN Move \ {SAUSAGE} ELSE Move

(* -------- the 2-player variants (src/unnamed/part_000) -------- *)
\* updateEggs and canUseSausage of the 2-player PlayerState have the text of the
\* N-player ones, and are the operators above.
PlayerState2(id, name) ==
    [id |-> id, name |-> name, hp |-> MAX_HP, eggs |-> <<>>, history |-> <<>>,
     isDead |-> FALSE]

\* addEgg returns [p |-> the player after the call, exploded |-> the return value]
addEgg2(p, isReflected) ==
    IF Len(p.eggs) > 0
    THEN [p |-> [p EXCEPT !.hp = 0, !.isDead = TRUE], exploded |-> TRUE]
    ELSE [p |-> [p EXCEPT !.eggs = Append(@, [turnsRemaining |-> EGG_TIMER,
                                               isReflected |-> isReflected])],
          exploded |-> FALSE]

\* a bug: the cure does not tell a new egg from an old one
IsNewEgg_Never(e) == FALSE

\* e.turnsRemaining === CONFIG.EGG_TIMER
IsNewEgg(e) == e.turnsRemaining = EGG_TIMER

curableEggs2(p, onlyCurable) ==
    SelectSeq(p.eggs, LAMBDA e : ~(onlyCurable /\ e.isReflected) /\ ~IsNewEgg(e))

\* removeEgg returns [p |-> the player after the call, ok |-> the return value]
removeEgg2(p, onlyCurable) ==
    IF Len(p.eggs) = 0 THEN [p |-> p, ok |-> FALSE]
    ELSE IF Len(curableEggs2(p, onlyCurable)) = 0 THEN [p |-> p, ok |-> FALSE]
    ELSE [p |-> [p EXCEPT !.eggs = SelectSeq(@, LAMBDA e : e \notin Range(curableEggs2(p, onlyCurable)))],
          ok |-> TRUE]

\* the lines of ls logged when cond holds
LogIf(cond, ls) == IF cond THEN ls ELSE <<>>

\* resolveInteraction(p1, m1, p2, m2) on S = [ps, logs, ...], ps the two players by role
resolveInteraction(S, p1, m1, p2, m2) ==
    LET P1 == S.ps[p1]
        P2 == S.ps[p2]
    IN  IF m1 = ATTACK THEN
            IF m2 = SAUSAGE THEN
                IF Len(P2.eggs) > 0 THEN
                    [S EXCEPT !.logs = Append(@, <<"SausageCuresTakesDamage", P2.name>>),
                              !.ps[p2] = [removeEgg2(P2, TRUE).p EXCEPT !.hp = @ - 1]]
                ELSE
                    [S EXCEPT !.logs = Append(@, <<"ReflectsAttack", P2.name, P1.name>>),
                              !.ps[p1].hp = @ - 1]
            ELSE IF m2 = BARRIER THEN
                [S EXCEPT !.logs = Append(@, <<"BarrierFailed", P2.name>>),
                          !.ps[p2].hp = @ - 1]
            ELSE
                [S EXCEPT !.logs = Append(@, <<"Attacks", P1.name, P2.name>>),
                          !.ps[p2].hp = @ - 1]
        ELSE IF m1 = EGG THEN
            IF m2 = BARRIER THEN
                LET r == addEgg2(P1, TRUE)
                IN  [S EXCEPT !.logs = @ \o <<<<"ReflectsEgg", P2.name, P1.name>>>> \o
                                       LogIf(r.exploded, <<<<"DoubleEgg", P1.name>>>>),
                              !.ps[p1] = r.p]
            ELSE IF m2 = SAUSAGE THEN
                LET c == removeEgg2(P2, TRUE)
                    r == addEgg2(c.p, FALSE)
                IN  [S EXCEPT !.logs = @ \o LogIf(c.ok, <<<<"CuredOld", P2.name>>>>) \o
                                       <<<<"PlantsEgg", P1.name, P2.name>>>> \o
                                       LogIf(r.exploded, <<<<"DoubleEgg", P2.name>>>>),
                              !.ps[p2] = r.p]
            ELSE
                LET r == addEgg2(P2, FALSE)
                IN  [S EXCEPT !.logs = @ \o <<<<"PlantsEgg", P1.name, P2.name>>>> \o
                                       LogIf(r.exploded, <<<<"DoubleEgg", P2.name>>>>),
                              !.ps[p2] = r.p]
        ELSE IF m1 = SAUSAGE THEN
            LET c == removeEgg2(P1, TRUE)
            IN  [S EXCEPT !.logs = @ \o LogIf(c.ok, <<<<"Cured", P1.name>>>>),
                          !.ps[p1] = c.p]
        ELSE S

\* the death check both processEndOfTurn run: double knockout, loss, win
\* S = [ps, logs, isGameOver, atTimers]; returns S with ended = a loss or a win was declared
DeathCheck(S, reason, endReason, resetDead) ==
    IF S.ps.player.hp <= 0 /\ S.ps.opponent.hp <= 0 THEN
        [S EXCEPT !.logs = Append(@, <<"DoubleKO", reason>>),
                  !.ps = [r \in {"player", "opponent"} |->
                            [S.ps[r] EXCEPT !.hp = 1, !.eggs = <<>>,
                                            !.isDead = IF resetDead THEN FALSE ELSE @]]]
        @@ [ended |-> FALSE]
    ELSE IF S.ps.player.hp <= 0 THEN
        [S EXCEPT !.isGameOver = TRUE, !.logs = Append(@, <<"YouLost", endReason>>)]
        @@ [ended |-> TRUE]
    ELSE IF S.ps.opponent.hp <= 0 THEN
        [S EXCEPT !.isGameOver = TRUE, !.logs = Append(@, <<"YouWon", endReason>>)]
        @@ [ended |-> TRUE]
    ELSE S @@ [ended |-> FALSE]

\* the timer tick of both players, the player first
TickBoth(S) ==
    LET a == updateEggs(S.ps.player)
        b == updateEggs(S.ps.opponent)
    IN  [S EXCEPT !.ps = [player |-> a.p, opponent |-> b.p],
                  !.atTimers = <<S.ps>>,
                  !.logs = @ \o LogIf(a.exploded, <<<<"Exploded", S.ps.player.name>>>>) \o
                           LogIf(b.exploded, <<<<"Exploded", S.ps.opponent.name>>>>)]

\* processEndOfTurn of part_000 lines 220-261
processEndOfTurn(S) ==
    LET S1 == DeathCheck(S, "Instant", "Instant", FALSE)
    IN  IF S1.ended THEN S1
        ELSE DeathCheck(TickBoth([x \in DOMAIN S |-> S1[x]]), "Timer", "Time limit", FALSE)

\* processEndOfTurn of part_000 lines 712-736
processEndOfTurnCpu(S) == DeathCheck(TickBoth(S), "", "Game Over", TRUE)

\* a 2-player engine state is a record D
Duel == [ps |-> [player |-> player, opponent |-> opponent], turn |-> turn,
         isGameOver |-> isGameOver, logs |-> logs, myMove |-> myMove, oppMove |-> oppMove,
         resolved |-> resolved]

\* the round both resolveRound and resolveTurn run, without their cleanup; cpuOnly tells
\* the processEndOfTurn of part_000 lines 712-736 from the one of lines 220-261
Round(D, playerMove, opponentMove, cpuOnly) ==
    LET S0 == [ps |-> [player |-> [D.ps.player EXCEPT !.history = Append(@, playerMove)],
                       opponent |-> [D.ps.opponent EXCEPT !.history = Append(@, opponentMove)]],
               logs |-> D.logs \o <<<<"Turn", ToString(D.turn)>>,
                                    <<"Moves", playerMove, D.ps.opponent.name, opponentMove>>>>,
               isGameOver |-> D.isGameOver, atTimers |-> <<>>]
        S1 == resolveInteraction(S0, "player", playerMove, "opponent", opponentMove)
        S2 == resolveInteraction(S1, "opponent", opponentMove, "player", playerMove)
        S3 == IF cpuOnly THEN processEndOfTurnCpu(S2) ELSE processEndOfTurn(S2)
    IN  [D EXCEPT !.ps = S3.ps, !.logs = S3.logs, !.isGameOver = S3.isGameOver,
                  \* what this round computed on the way
                  !.resolved = <<[turn |-> D.turn, before |-> D.ps,
                                  moves |-> [player |-> playerMove, opponent |-> opponentMove],
                                  afterFirst |-> S1.ps, afterSecond |-> S2.ps,
                                  atTimers |-> S3.atTimers, logStart |-> Len(D.logs)]>>]

\* resolveRound of part_000 lines 120-148
resolveRound(D) ==
    IF D.isGameOver THEN D
    ELSE [Round(D, D.myMove, D.oppMove, FALSE)
            EXCEPT !.myMove = Null, !.oppMove = Null, !.turn = @ + 1]

\* registerMove(isPlayer, move) of part_000 lines 111-118
registerMove2(D, isPlayer, move) ==
    LET D1 == IF isPlayer THEN [D EXCEPT !.myMove = move] ELSE [D EXCEPT !.oppMove = move]
    IN  IF D1.myMove # Null /\ D1.oppMove # Null THEN resolveRound(D1) ELSE D1

\* the moves decideCpuMove of part_000 lines 150-164 can return
decideCpuMove2(D) ==
    IF /\ Len(D.ps.opponent.eggs) > 0
       /\ canUseSausage(D.ps.opponent)
       /\ \E i \in 1..Len(D.ps.opponent.eggs) : ~D.ps.opponent.eggs[i].isReflected
    THEN {SAUSAGE}
    ELSE IF ~canUseSausage(D.ps.opponent) THEN Move \ {SAUSAGE} ELSE Move

\* the moves decideCpuMove of part_000 lines 616-625 can return
decideCpuMoveCpu(D) ==
    IF ~canUseSausage(D.ps.opponent) THEN Move \ {SAUSAGE} ELSE Move

\* resolveTurn(playerMove) of part_000 lines 590-614, for the move the CPU decided
resolveTurnCpu(D, playerMove, opponentMove) ==
    IF D.isGameOver THEN D
    ELSE [Round(D, playerMove, opponentMove, TRUE) EXCEPT !.turn = @ + 1]

(* -------- the local game: UI.startLocalGame, the buttons, the CPU timeout -------- *)
Engine == [players |-> players, order |-> order, myId |-> myId, isHost |-> isHost,
           turn |-> turn, isGameOver |-> isGameOver, logs |-> logs, timers |-> timers,
           resolved |-> resolved, conns |-> conns, channel |-> channel, sent |-> sent]

Becomes(E) ==
    /\ players' = E.players
    /\ order' = E.order
    /\ myId' = E.myId
    /\ isHost' = E.isHost
    /\ turn' = E.turn
    /\ isGameOver' = E.isGameOver
    /\ logs' = E.logs
    /\ timers' = E.timers
    /\ resolved' = E.resolved
    /\ conns' = E.conns
    /\ channel' = E.channel
    /\ sent' = E.sent
    /\ UNCHANGED <<variant, player, opponent, myMove, oppMove>>

Becomes2(D) ==
    /\ player' = D.ps.player
    /\ opponent' = D.ps.opponent
    /\ turn' = D.turn
    /\ isGameOver' = D.isGameOver
    /\ logs' = D.logs
    /\ myMove' = D.myMove
    /\ oppMove' = D.oppMove
    /\ resolved' = D.resolved
    /\ UNCHANGED <<variant, players, order, myId, isHost, timers>>
    /\ UNCHANGED <<conns, channel, sent, joins, replica, replicaButtons, outbox>>

\* new GameEngine(), with no connection open and nothing sent
NewEngine ==
    [players |-> <<>>, order |-> <<>>, myId |-> Null, isHost |-> FALSE, turn |-> 1,
     isGameOver |-> FALSE, logs |-> <<>>, timers |-> <<>>, resolved |-> <<>>,
     conns |-> {}, channel |-> <<>>, sent |-> [n |-> 0, state |-> Null]]

\* initGame(myId, myName, others) on a fresh engine whose isHost is already set
initGame(id, name, others, host) ==
    broadcastState(
      [NewEngine EXCEPT
         !.players = [i \in {id} \cup {others[k].id : k \in 1..Len(others)} |->
                        IF i = id THEN PlayerState(id, name, FALSE)
                        ELSE LET o == CHOOSE o \in Range(others) : o.id = i
                             IN  PlayerState(o.id, o.name, o.isCpu)],
         !.order = <<id>> \o [k \in 1..Len(others) |-> others[k].id],
         !.myId = id, !.isHost = host, !.logs = <<<<"GameStart">>>>])

\* UI.startLocalGame(myName, cpuCount)
startLocalGame(name, cpuCount) ==
    queueCpuMoves(initGame("p1", name,
                           [i \in 1..cpuCount |-> [id |-> CpuId(i), name |-> CpuName(i), isCpu |-> TRUE]],
                           TRUE))

\* the variables of E
Starts(E) ==
    /\ players = E.players
    /\ order = E.order
    /\ myId = E.myId
    /\ isHost = E.isHost
    /\ turn = E.turn
    /\ isGameOver = E.isGameOver
    /\ logs = E.logs
    /\ timers = E.timers
    /\ resolved = E.resolved
    /\ conns = E.conns
    /\ channel = E.channel
    /\ sent = E.sent

InitNPlayer ==
    \E cpuCount \in CpuCounts :
       /\ variant = "nplayer"
       /\ Starts(startLocalGame(MyName, cpuCount))
       /\ player = Null /\ opponent = Null /\ myMove = Null /\ oppMove = Null
       /\ joins = 0 /\ replica = Null /\ replicaButtons = FALSE /\ outbox = <<>>

\* UI.startOnlineGame on both peers: net.onConnected(true, id) on the host, which starts
\* the game alone, and net.onConnected(false, id) on the guest, whose engine stays empty
InitOnline ==
    /\ variant = "online"
    /\ Starts(initGame(HostId, MyName, <<>>, TRUE))
    /\ player = Null /\ opponent = Null /\ myMove = Null /\ oppMove = Null
    /\ joins = 0 /\ replica = NewEngine /\ replicaButtons = TRUE /\ outbox = <<>>

\* reset() and UI.startGame(isOnline) of part_000 lines 90-99 and 336-343, and the
\* constructor of part_000 lines 575-582
InitDuel ==
    /\ variant \in {"duelOnline", "duelLocal", "duelCpu"}
    /\ player = PlayerState2("player", "You")
    /\ opponent = PlayerState2("opponent", IF variant = "duelOnline" THEN "Opponent" ELSE "CPU")
    /\ turn = 1
    /\ isGameOver = FALSE
    /\ logs = <<>>
    /\ myMove = Null /\ oppMove = Null
    /\ resolved = <<>>
    /\ players = <<>> /\ order = <<>> /\ myId = Null /\ isHost = FALSE /\ timers = <<>>
    /\ conns = {} /\ channel = <<>> /\ sent = NewEngine.sent
    /\ joins = 0 /\ replica = Null /\ replicaButtons = FALSE /\ outbox = <<>>

Init == InitNPlayer \/ InitOnline \/ InitDuel

\* commits are accepted while the round counter is within the bound
TurnCap ==
    IF variant = "online" THEN MaxTurnOnline
    ELSE IF Cardinality(DOMAIN players) > 2 THEN MaxTurnRoyale ELSE MaxTurn

\* UI.render leaves the buttons enabled exactly in this case; submitMove disables them
ButtonsEnabled ==
    /\ players[myId].currentMove = Null
    /\ ~players[myId].isDead
    /\ ~isGameOver

\* a button click of the human player, then (Attack, Egg) a click on a living opponent's card
UIClick ==
    /\ ButtonsEnabled
    /\ \E action \in Move, targetId \in DOMAIN players \cup {Null} :
         /\ action = SAUSAGE => canUseSausage(players[myId])
         /\ IF action \in {ATTACK, EGG}
            THEN targetId \in DOMAIN players /\ targetId # myId /\ ~players[targetId].isDead
            ELSE targetId = Null
         /\ Becomes(registerMove(Engine, myId, action, targetId))
    /\ UNCHANGED <<joins, replica, replicaButtons, outbox>>

UISubmit ==
    /\ variant \in {"nplayer", "online"}
    /\ turn <= TurnCap
    /\ Len(channel) < MaxInFlight
    /\ UIClick

\* cpus.forEach(cpu => ...) of the timeout callback: the engine states it can end in,
\* one for every outcome of Math.random in decideCpuMove and in the choice of the target
RECURSIVE CpuLoop(_, _)
CpuLoop(E, cpus) ==
    IF cpus = <<>> THEN {E}
    ELSE LET id == Head(cpus)
             potentialTargets == {t \in DOMAIN E.players : ~E.players[t].isDead /\ t # id}
             targetIds == IF potentialTargets = {} THEN {Null} ELSE potentialTargets
         IN  UNION {CpuLoop(registerMove(E, id, move, targetId), Tail(cpus)) :
                      <<move, targetId>> \in decideCpuMove(E.players[id]) \X targetIds}

\* the callback queued by queueCpuMoves fires
CpuFire ==
    /\ timers # <<>>
    /\ \E E \in CpuLoop([Engine EXCEPT !.timers = Tail(@)], Head(timers)) : Becomes(E)
    /\ UNCHANGED <<joins, replica, replicaButtons, outbox>>

CpuTimeout ==
    /\ variant = "nplayer"
    /\ turn <= TurnCap
    /\ CpuFire

\* net.onPeerJoin(peerId, meta) on the host: a connection of the guest opens
\* a bug: the join starts the match again, as initGame does
Joined_Restart(E, peerId, name) ==
    [E EXCEPT
       !.conns = @ \cup {peerId},
       !.players = [id \in DOMAIN E.players \cup {peerId} |->
                      IF id = peerId THEN PlayerState(peerId, name, FALSE)
                      ELSE E.players[id]],
       !.order = IF peerId \in DOMAIN E.players THEN @ ELSE Append(@, peerId),
       !.turn = 1, !.isGameOver = FALSE, !.logs = <<<<"GameStart">>>>]

\* this.connections.set(conn.peer, conn) of the network manager, and
\* engine.players.set(peerId, new PlayerState(peerId, name))
Joined(E, peerId, name) ==
    [E EXCEPT
       !.conns = @ \cup {peerId},
       !.players = [id \in DOMAIN E.players \cup {peerId} |->
                      IF id = peerId THEN PlayerState(peerId, name, FALSE)
                      ELSE E.players[id]],
       !.order = IF peerId \in DOMAIN E.players THEN @ ELSE Append(@, peerId)]

PeerJoin ==
    /\ variant = "online"
    /\ joins < MaxJoins
    /\ Len(channel) < MaxInFlight
    /\ isHost
    /\ Becomes(broadcastState(Joined(Engine, GuestId, GuestName)))
    /\ joins' = joins + 1
    /\ UNCHANGED <<replica, replicaButtons, outbox>>

\* net.onData(data, source) on the host, data.type = 'move': the message of a connected
\* peer, with any action, and any participant, null or an id of no participant as the
\* target of an Attack or Egg
PeerMove ==
    /\ variant = "online"
    /\ turn <= TurnCap + 1
    /\ Len(channel) < MaxInFlight
    /\ isHost
    /\ \E source \in conns, action \in Move,
          targetId \in DOMAIN players \cup {Null, UnknownId} :
         /\ action \in {SAUSAGE, BARRIER} => targetId = Null
         /\ Becomes(registerMove(Engine, source, action, targetId))
    /\ UNCHANGED <<joins, replica, replicaButtons, outbox>>

\* the condition under which UI.render enables the buttons of the engine E
RenderEnables(E) ==
    /\ E.myId \in DOMAIN E.players
    /\ E.players[E.myId].currentMove = Null
    /\ ~E.players[E.myId].isDead
    /\ ~E.isGameOver

\* net.onData(data, source) on the guest, data.type = 'state'
ReplicaReceive ==
    /\ variant = "online"
    /\ channel # <<>>
    /\ LET E0 == IF Cardinality(DOMAIN replica.players) = 0
                 THEN [replica EXCEPT !.myId = GuestId] ELSE replica
           E1 == applyState(E0, Head(channel))
       IN  /\ replica' = E1
           /\ replicaButtons' = (RenderEnables(E1) \/ replicaButtons)
    /\ channel' = Tail(channel)
    /\ UNCHANGED <<variant, players, order, myId, isHost, turn, isGameOver, logs, timers,
                   resolved, player, opponent, myMove, oppMove, conns, sent, joins, outbox>>

\* a button click of the guest, then (Attack, Egg) a click on a living opponent's card:
\* UI.submitMove calls registerMove on the guest's engine, which sends the move to the
\* host when the connection is open.  followed: the message is followed on its way, in
\* outbox
ReplicaClick(followed) ==
    /\ replicaButtons
    /\ replica.myId \in DOMAIN replica.players
    /\ ~replica.isGameOver
    /\ \E action \in Move, targetId \in DOMAIN replica.players \cup {Null} :
         /\ action = SAUSAGE => canUseSausage(replica.players[replica.myId])
         /\ IF action \in {ATTACK, EGG}
            THEN /\ targetId \in DOMAIN replica.players
                 /\ targetId # replica.myId
                 /\ ~replica.players[targetId].isDead
            ELSE targetId = Null
         /\ replica' = registerMove(replica, replica.myId, action, targetId)
         /\ outbox' = IF followed /\ GuestId \in conns
                       THEN Append(outbox, [action |-> action, targetId |-> targetId,
                                            sentIn |-> replica.turn])
                       ELSE outbox
    /\ replicaButtons' = FALSE
    /\ UNCHANGED <<variant, players, order, myId, isHost, turn, isGameOver, logs, timers,
                   resolved, player, opponent, myMove, oppMove, conns, channel, sent, joins>>

\* the guest's click where the move messages that reach the host are those of PeerMove
ReplicaSubmit == variant = "online" /\ ReplicaClick(FALSE)

\* the buttons of the 2-player variants: disabled by a click, enabled again at the end of
\* the round unless the game is over; the Sausage button follows canUseSausage
ButtonsEnabled2 == myMove = Null /\ ~isGameOver
MayClick(action) == action = SAUSAGE => canUseSausage(player)

\* handlePlayerInput online: the move is sent to the peer and registered
DuelSubmit ==
    /\ variant = "duelOnline"
    /\ turn <= MaxTurn
    /\ ButtonsEnabled2
    /\ \E action \in Move :
         /\ MayClick(action)
         /\ Becomes2(registerMove2(Duel, TRUE, action))

\* net.onData: the move the peer chose with its own buttons arrives
DuelPeerMove ==
    /\ variant = "duelOnline"
    /\ turn <= MaxTurn
    /\ oppMove = Null
    /\ \E move \in Move :
         /\ move = SAUSAGE => canUseSausage(opponent)
         /\ Becomes2(registerMove2(Duel, FALSE, move))

\* handlePlayerInput against the CPU: the timeout registers the CPU's move, then the player's
DuelLocalRound ==
    /\ variant = "duelLocal"
    /\ turn <= MaxTurn
    /\ ButtonsEnabled2
    /\ \E action \in Move :
         /\ MayClick(action)
         /\ \E cpuMove \in decideCpuMove2(Duel) :
              Becomes2(registerMove2(registerMove2(Duel, FALSE, cpuMove), TRUE, action))

\* a button click of part_000 lines 760-777: UI.playRound calls resolveTurn(playerAction)
DuelCpuRound ==
    /\ variant = "duelCpu"
    /\ turn <= MaxTurn
    /\ ~isGameOver
    /\ \E action \in Move :
         /\ MayClick(action)
         /\ \E cpuMove \in decideCpuMoveCpu(Duel) :
              Becomes2(resolveTurnCpu(Duel, action, cpuMove))

Next ==
    \/ UISubmit \/ CpuTimeout
    \/ PeerJoin \/ PeerMove \/ ReplicaReceive \/ ReplicaSubmit
    \/ DuelSubmit \/ DuelPeerMove \/ DuelLocalRound \/ DuelCpuRound

Spec == Init /\ [][Next]_vars

(* -------- a long game against two CPUs -------- *)
\* Three rounds of a local game against two CPUs.  In the rounds of the opening the human
\* clicks Barrier and Math.random makes every CPU attack or plant an egg on the human; the
\* last round is played with every click and every outcome of Math.random.
InitLongRoyale ==
    /\ variant = "nplayer"
    /\ Starts(startLocalGame(MyName, 2))
    /\ player = Null /\ opponent = Null /\ myMove = Null /\ oppMove = Null
    /\ joins = 0 /\ replica = Null /\ replicaButtons = FALSE /\ outbox = <<>>

\* the button click of a round of the opening
UIOpening ==
    /\ turn <= OpeningRounds
    /\ ButtonsEnabled
    /\ Becomes(registerMove(Engine, myId, BARRIER, Null))
    /\ UNCHANGED <<joins, replica, replicaButtons, outbox>>

\* cpus.forEach(cpu => ...) in a round of the opening
RECURSIVE CpuLoopOpening(_, _)
CpuLoopOpening(E, cpus) ==
    IF cpus = <<>> THEN {E}
    ELSE LET id == Head(cpus)
         IN  UNION {CpuLoopOpening(registerMove(E, id, move, E.myId), Tail(cpus)) :
                      move \in decideCpuMove(E.players[id]) \cap {ATTACK, EGG}}

\* the callback queued by queueCpuMoves fires in a round of the opening
CpuOpening ==
    /\ turn <= OpeningRounds
    /\ timers # <<>>
    /\ \E E \in CpuLoopOpening([Engine EXCEPT !.timers = Tail(@)], Head(timers)) : Becomes(E)
    /\ UNCHANGED <<joins, replica, replicaButtons, outbox>>

UILastRound == turn = OpeningRounds + 1 /\ UIClick
CpuLastRound == turn = OpeningRounds + 1 /\ CpuFire

NextLongRoyale == UIOpening \/ CpuOpening \/ UILastRound \/ CpuLastRound

SpecLongRoyale == InitLongRoyale /\ [][NextLongRoyale]_vars

(* -------- an online session: connections that close, messages on their way -------- *)
\* The online game with the guest's move messages followed from the guest's buttons to the
\* host, connections that close, and state messages that arrive without participants.
InitSession == InitOnline

\* the guest's click, its move message followed
GuestSubmit == variant = "online" /\ Len(outbox) < MaxOutbox /\ ReplicaClick(TRUE)

\* net.onData(data, source) on the host, for the oldest move message of the guest
MoveArrives ==
    /\ variant = "online"
    /\ turn <= TurnCap + 1
    /\ Len(channel) < MaxInFlight
    /\ GuestId \in conns
    /\ outbox # <<>>
    /\ Becomes(registerMove(Engine, GuestId, Head(outbox).action, Head(outbox).targetId))
    /\ outbox' = Tail(outbox)
    /\ UNCHANGED <<joins, replica, replicaButtons>>

\* conn.on('close') on the host: this.connections.delete(conn.peer).  The messages still
\* on their way on the closed connection are lost.
PeerLeave ==
    /\ variant = "online"
    /\ GuestId \in conns
    /\ conns' = conns \ {GuestId}
    /\ channel' = <<>>
    /\ outbox' = <<>>
    /\ UNCHANGED <<variant, players, order, myId, isHost, turn, isGameOver, logs, timers,
                   resolved, player, opponent, myMove, oppMove, sent, joins,
                   replica, replicaButtons>>

\* the state messages without participants that can arrive at the guest
Malformed == {[turn |-> 0, isGameOver |-> over, logs |-> <<>>] : over \in BOOLEAN}

\* net.onData(data, source) on the guest, data.type = 'state' and data.state without
\* players: applyState throws at data.players.forEach, before it notifies the UI
MalformedArrives ==
    /\ variant = "online"
    /\ GuestId \in conns
    /\ \E data \in Malformed :
         replica' = applyState(IF Cardinality(DOMAIN replica.players) = 0
                               THEN [replica EXCEPT !.myId = GuestId] ELSE replica,
                               data)
    /\ UNCHANGED <<variant, players, order, myId, isHost, turn, isGameOver, logs, timers,
                   resolved, player, opponent, myMove, oppMove, conns, channel, sent, joins,
                   replicaButtons, outbox>>

NextSession ==
    \/ UISubmit \/ PeerJoin \/ PeerLeave \/ MoveArrives
    \/ ReplicaReceive \/ GuestSubmit \/ MalformedArrives

SpecSession == InitSession /\ [][NextSession]_vars

(* ======== properties of a resolved round ======== *)
\* resolved holds what the last resolveTurn computed; R is read only where Resolved holds.
\* Resolved: the participants are as the last resolution left them, pending moves aside
Resolved ==
    /\ variant \in {"nplayer", "online"}
    /\ resolved # <<>>
    /\ \A id \in DOMAIN players :
         /\ id \in DOMAIN resolved[1].after
         /\ [players[id] EXCEPT !.currentMove = Null, !.targetId = Null] = resolved[1].after[id]
R == resolved[1]
LivingAtStart == Range(R.living)
Committed(p) == R.before[p].currentMove
Target(p) == R.before[p].targetId
HeldEggAtStart(p) == Len(R.before[p].eggs) > 0
\* the living participants other than d that aimed move m at d
Aimed(m, d) == {a \in LivingAtStart \ {d} : Committed(a) = m /\ Target(a) = d}
\* p aimed move m at another living participant whose move is answer
AimedAtMove(p, m, answer) ==
    /\ Committed(p) = m
    /\ Target(p) \in LivingAtStart \ {p}
    /\ Committed(Target(p)) = answer
AttacksLandingOn(p) ==
    IF Committed(p) = SAUSAGE /\ ~HeldEggAtStart(p) THEN 0 ELSE Cardinality(Aimed(ATTACK, p))
OwnAttackReflected(p) ==
    IF AimedAtMove(p, ATTACK, SAUSAGE) /\ ~HeldEggAtStart(Target(p)) THEN 1 ELSE 0
DirectEggsOn(p) == IF Committed(p) = BARRIER THEN 0 ELSE Cardinality(Aimed(EGG, p))
OwnEggReflected(p) == IF AimedAtMove(p, EGG, BARRIER) THEN 1 ELSE 0
IncomingEggs(p) == DirectEggsOn(p) + OwnEggReflected(p)
\* the lines the last resolution logged
RoundLog == SubSeq(logs, R.logStart + 1, Len(logs))
Logged(line) == \E i \in 1..Len(RoundLog) : RoundLog[i] = line

\* C1: an Attack at a participant whose move is Sausage costs the attacker 1 hp and the
\* defender none when the defender held no egg at the start of the round, and costs the
\* defender 1 hp and the attacker none when the defender held an egg at the start of the
\* round, cured in this round or not.
C1_SausageReflectBySnapshot ==
    Resolved =>
      \A d \in LivingAtStart : \A a \in Aimed(ATTACK, d) :
        Committed(d) = SAUSAGE =>
          IF ~HeldEggAtStart(d)
          THEN /\ R.damageMap[d] = 0
               /\ R.damageMap[a] = 1 + Cardinality(Aimed(ATTACK, a))
               /\ R.hpAfterDamage[d] = R.before[d].hp
               /\ R.hpAfterDamage[a] = R.before[a].hp - 1 - Cardinality(Aimed(ATTACK, a))
          ELSE /\ R.damageMap[d] = Cardinality(Aimed(ATTACK, d))
               /\ R.damageMap[a] = Cardinality(Aimed(ATTACK, a))
               /\ R.hpAfterDamage[d] = R.before[d].hp - Cardinality(Aimed(ATTACK, d))
               /\ R.hpAfterDamage[a] = R.before[a].hp - Cardinality(Aimed(ATTACK, a))

\* a round in which the defender's egg was cured and the Attack still landed on the defender
C1_Witness ==
    /\ Resolved
    /\ \E d \in LivingAtStart : \E a \in Aimed(ATTACK, d) :
         /\ Committed(d) = SAUSAGE
         /\ HeldEggAtStart(d)
         /\ R.afterInteraction[d].eggs = <<>>
         /\ R.afterApply[d].hp = R.before[d].hp - 1
         /\ R.afterApply[a].hp = R.before[a].hp

\* p starts the round with one curable egg and exactly one egg comes in
OneCurableEggPlusOne(p) ==
    /\ Len(R.before[p].eggs) = 1
    /\ ~R.before[p].eggs[1].isReflected
    /\ IncomingEggs(p) = 1

\* C2 as stated: a participant that starts a round with one curable egg and receives exactly
\* one new egg has hp 0 and is dead at the end of the round, whatever its move.
C2_AsStated ==
    Resolved =>
      \A p \in LivingAtStart :
        OneCurableEggPlusOne(p) => players[p].hp = 0 /\ players[p].isDead

\* C2 amended: it has hp 0 and is dead at the end of the round unless its move is Sausage;
\* with Sausage the old egg is cured, the new egg is the only egg it holds, and its hp is
\* what the damage of the round leaves.
C2_DiesUnlessSausage ==
    Resolved =>
      \A p \in LivingAtStart :
        OneCurableEggPlusOne(p) =>
          IF Committed(p) # SAUSAGE
          THEN /\ R.afterApply[p].hp = 0
               /\ players[p].hp = 0 /\ players[p].isDead
          ELSE /\ R.afterApply[p].hp = R.before[p].hp - R.damageMap[p]
               /\ R.afterApply[p].eggs = <<[turnsRemaining |-> EGG_TIMER, isReflected |-> FALSE]>>
               /\ players[p].isDead <=> R.afterApply[p].hp <= 0

\* both cases of the amended C2 at once are not one state: the witness is the Sausage case,
\* the participant alive after the round with the new egg only
C2_Witness ==
    /\ Resolved
    /\ \E p \in LivingAtStart :
         /\ OneCurableEggPlusOne(p)
         /\ Committed(p) = SAUSAGE
         /\ ~players[p].isDead
         /\ Len(players[p].eggs) = 1

\* C3: a participant whose incoming eggs of the round (direct plus barrier-reflected) are
\* two or more has hp 0 after the apply phase, is dead after the instant death check and
\* holds no egg it did not hold before the apply phase.
C3_MultipleEggsInstantDeath ==
    Resolved =>
      \A p \in LivingAtStart :
        IncomingEggs(p) >= 2 =>
          /\ R.afterApply[p].hp = 0
          /\ R.afterInstant[p].isDead
          /\ R.afterApply[p].eggs = R.afterInteraction[p].eggs
          /\ players[p].eggs = R.afterInteraction[p].eggs
          /\ players[p].hp = 0

\* one direct and one reflected egg on a participant that started the round without an egg
C3_Witness ==
    /\ Resolved
    /\ \E p \in LivingAtStart :
         /\ ~HeldEggAtStart(p)
         /\ DirectEggsOn(p) = 1 /\ OwnEggReflected(p) = 1
         /\ players[p].isDead /\ players[p].eggs = <<>>

\* C4: an Egg at a participant whose move is Barrier counts one reflected egg for the
\* thrower and none for the defender, who keeps exactly its eggs; an Egg at any other
\* move counts one curable egg for the defender and none for the thrower; a reflected egg
\* that is added is uncurable, a direct one curable.
C4_EggInteraction ==
    Resolved =>
      \A p \in LivingAtStart :
        /\ R.eggMap[p] = DirectEggsOn(p)
        /\ R.refEggMap[p] = OwnEggReflected(p)
        /\ Committed(p) = BARRIER => R.afterApply[p].eggs = R.before[p].eggs
        /\ (IncomingEggs(p) = 1 /\ ~HeldEggAtStart(p)) =>
              R.afterApply[p].eggs = <<[turnsRemaining |-> EGG_TIMER,
                                        isReflected |-> (OwnEggReflected(p) = 1)]>>

\* a Barrier holder of an egg keeps it and the thrower holds the reflected egg
C4_Witness ==
    /\ Resolved
    /\ \E d \in LivingAtStart : \E a \in Aimed(EGG, d) :
         /\ Committed(d) = BARRIER
         /\ HeldEggAtStart(d)
         /\ R.afterApply[d].eggs = R.before[d].eggs
         /\ R.afterApply[a].eggs = <<[turnsRemaining |-> EGG_TIMER, isReflected |-> TRUE]>>

\* C5: a participant that holds an egg at the start of the round, commits Attack or Egg and
\* on which exactly one Egg of another living participant lands has hp 0 after the apply
\* phase, is dead after the instant death check and has no egg added.
C5_StackedEggInstantDeath ==
    Resolved =>
      \A p \in LivingAtStart :
        (HeldEggAtStart(p) /\ Committed(p) \notin {SAUSAGE, BARRIER} /\ DirectEggsOn(p) = 1) =>
          /\ R.afterApply[p].hp = 0
          /\ R.afterInstant[p].isDead
          /\ R.afterApply[p].eggs = R.before[p].eggs
          /\ players[p].eggs = R.before[p].eggs

C5_Witness ==
    /\ Resolved
    /\ \E p \in LivingAtStart :
         /\ HeldEggAtStart(p) /\ Committed(p) = ATTACK /\ DirectEggsOn(p) = 1
         /\ OwnEggReflected(p) = 0
         /\ R.before[p].hp - R.damageMap[p] > 0
         /\ players[p].isDead /\ Len(players[p].eggs) = 1

\* p starts the round with an egg that no cure of the round can remove
HoldsUncured(p) ==
    /\ Len(R.before[p].eggs) = 1
    /\ Committed(p) # SAUSAGE \/ R.before[p].eggs[1].isReflected

\* p is alive when the timer phase of the round runs
AliveAtTimers(p) == ~R.afterInstant[p].isDead
Ticked(eggs) == [i \in 1..Len(eggs) |-> [eggs[i] EXCEPT !.turnsRemaining = @ - 1]]
\* what the last round of a 2-player variant computed; R is read only where Resolved2 holds
Resolved2 == variant \in {"duelOnline", "duelLocal", "duelCpu"} /\ resolved # <<>>
Roles == {"player", "opponent"}
Other(r) == IF r = "player" THEN "opponent" ELSE "player"
\* the eggs of ps[r] that the holder did not have at the start of the round
AddedEggs2(ps, r) == {e \in Range(ps[r].eggs) : e \notin Range(R.before[r].eggs)}
\* the eggs the apply phase of the N-player engine added to p
AddedEggs(p) ==
    SubSeq(R.afterApply[p].eggs, Len(R.afterInteraction[p].eggs) + 1, Len(R.afterApply[p].eggs))

\* C6: an egg added in a round is on its holder when the timer phase of that round runs.
\* N-player engine: the interaction phase, where all cures run, only removes eggs held at the
\* start of the round; the apply phase only appends to what the cures left; the one egg that
\* comes in on a participant without an egg after the cures is added with turnsRemaining =
\* EGG_TIMER, also when the participant committed Sausage; the eggs after the apply phase
\* are the eggs the timer phase finds, and it ticks them once if the holder is alive.
\* 2-player variants: every egg held at the start of a round has turnsRemaining < EGG_TIMER;
\* an egg added by the first resolveInteraction is still held after the second one, whose
\* Sausage cure runs later; and an egg added by either is held when updateEggs runs.
C6_NewEggSurvivesCure ==
    /\ Resolved =>
         \A p \in LivingAtStart :
           /\ \A i \in 1..Len(R.before[p].eggs) : R.before[p].eggs[i].turnsRemaining < EGG_TIMER
           /\ Range(R.afterInteraction[p].eggs) \subseteq Range(R.before[p].eggs)
           /\ SubSeq(R.afterApply[p].eggs, 1, Len(R.afterInteraction[p].eggs))
                = R.afterInteraction[p].eggs
           /\ (IncomingEggs(p) = 1 /\ R.afterInteraction[p].eggs = <<>>) =>
                AddedEggs(p) = <<[turnsRemaining |-> EGG_TIMER,
                                  isReflected |-> (OwnEggReflected(p) = 1)]>>
           /\ \A i \in 1..Len(AddedEggs(p)) : AddedEggs(p)[i].turnsRemaining = EGG_TIMER
           /\ R.afterInstant[p].eggs = R.afterApply[p].eggs
           /\ AliveAtTimers(p) => R.afterTimers[p].eggs = Ticked(R.afterApply[p].eggs)
    /\ Resolved2 =>
         \A r \in Roles :
           /\ \A i \in 1..Len(R.before[r].eggs) : R.before[r].eggs[i].turnsRemaining < EGG_TIMER
           /\ (R.moves[Other(r)] = EGG /\ R.moves[r] \notin {BARRIER} /\ R.before[r].eggs = <<>>) =>
                AddedEggs2(R.afterSecond, r) = {[turnsRemaining |-> EGG_TIMER, isReflected |-> FALSE]}
           /\ AddedEggs2(R.afterFirst, r) \subseteq AddedEggs2(R.afterSecond, r)
           /\ R.atTimers # <<>> =>
                AddedEggs2(R.afterSecond, r) \subseteq Range(R.atTimers[1][r].eggs)

\* a 2-player round in which the opponent's Sausage cured its old egg and the player's Egg
\* planted a new one, which the timer phase found and ticked
C6_Witness ==
    /\ Resolved2
    /\ R.moves.player = EGG /\ R.moves.opponent = SAUSAGE
    /\ Len(R.before.opponent.eggs) = 1
    /\ R.before.opponent.eggs[1] \notin Range(R.afterFirst.opponent.eggs)
    /\ R.atTimers # <<>>
    /\ R.atTimers[1].opponent.eggs = <<[turnsRemaining |-> EGG_TIMER, isReflected |-> FALSE]>>
    /\ opponent.eggs = <<[turnsRemaining |-> EGG_TIMER - 1, isReflected |-> FALSE]>>

\* C7: an egg starts at EGG_TIMER, is decremented exactly once in every resolved round in
\* which its holder is alive at the timer phase (1 after the round that applied it, then 0)
\* and, unless cured, reaches -1 in the round after that, where its holder's hp becomes 0
\* and the holder is dead; a holder whose eggs stay at 0 or more is not killed by the
\* timer phase; no egg is ever below -1 and no living participant holds an egg below 0.
C7_EggLifecycle ==
    /\ \A id \in DOMAIN players : \A i \in 1..Len(players[id].eggs) :
         /\ players[id].eggs[i].turnsRemaining >= -1
         /\ players[id].eggs[i].turnsRemaining <= EGG_TIMER
         /\ ~players[id].isDead => players[id].eggs[i].turnsRemaining \in 0..(EGG_TIMER - 1)
    /\ Resolved =>
         \A p \in LivingAtStart :
           /\ AliveAtTimers(p) => players[p].eggs = Ticked(R.afterApply[p].eggs)
           /\ ~AliveAtTimers(p) => players[p].eggs = R.afterApply[p].eggs
           /\ (AliveAtTimers(p) /\ IncomingEggs(p) = 1 /\ ~HeldEggAtStart(p)) =>
                /\ players[p].eggs = <<[turnsRemaining |-> EGG_TIMER - 1,
                                        isReflected |-> (OwnEggReflected(p) = 1)]>>
                /\ ~players[p].isDead
           /\ (AliveAtTimers(p) /\ HoldsUncured(p)) =>
                /\ players[p].eggs =
                     <<[R.before[p].eggs[1] EXCEPT !.turnsRemaining = @ - 1]>>
                /\ IF R.before[p].eggs[1].turnsRemaining = 0
                   THEN players[p].hp = 0 /\ players[p].isDead
                   ELSE ~players[p].isDead /\ players[p].hp = R.afterApply[p].hp
           /\ (AliveAtTimers(p) /\ R.afterApply[p].eggs = <<>>) =>
                ~players[p].isDead /\ players[p].hp = R.afterApply[p].hp

\* an egg applied in round 1 explodes in the timer phase of round 3, its holder not
\* otherwise defeated
C7_Witness ==
    /\ Resolved
    /\ R.turn = 3
    /\ \E p \in LivingAtStart :
         /\ HoldsUncured(p)
         /\ R.before[p].eggs[1].turnsRemaining = 0
         /\ R.afterInstant[p].hp > 0
         /\ players[p].eggs[1].turnsRemaining = -1
         /\ players[p].isDead /\ players[p].hp = 0

\* C8: a participant whose egg ticks from 0 to -1 in the timer phase, no cure attempted,
\* has hp 0, is dead, and a 'Defeated! (Timer)' line naming it is logged in that round.
C8_TimerDeathLogged ==
    Resolved =>
      \A p \in LivingAtStart :
        (/\ Len(R.before[p].eggs) >= 1
         /\ R.before[p].eggs[1].turnsRemaining = 0
         /\ Committed(p) # SAUSAGE
         /\ AliveAtTimers(p)) =>
          /\ players[p].hp = 0
          /\ players[p].isDead
          /\ Logged(<<"Defeated", players[p].name, "Timer">>)

RECURSIVE SumOver(_, _)
SumOver(S, f) ==
    IF S = {} THEN 0
    ELSE LET x == CHOOSE x \in S : TRUE IN f[x] + SumOver(S \ {x}, f)

\* the Attacks of the round by a living participant at another living participant
AttacksMade == {a \in LivingAtStart : Committed(a) = ATTACK /\ Target(a) \in LivingAtStart \ {a}}

\* C9: no hp changes before all interactions are counted; the damage counted for a
\* participant is the number of Attacks landing on it plus its own reflected Attack, and
\* that is what is subtracted from its hp; the damage of all participants adds up to the
\* number of Attacks made at another living participant.
C9_AttackDamageAccounting ==
    Resolved =>
      /\ \A p \in LivingAtStart :
           /\ R.afterInteraction[p].hp = R.before[p].hp
           /\ R.damageMap[p] = AttacksLandingOn(p) + OwnAttackReflected(p)
           /\ R.hpAfterDamage[p] = R.before[p].hp - AttacksLandingOn(p) - OwnAttackReflected(p)
           /\ R.afterApply[p].hp \in {R.hpAfterDamage[p], 0}
      /\ SumOver(LivingAtStart, R.damageMap) = Cardinality(AttacksMade)
      /\ SumOver(LivingAtStart, [p \in LivingAtStart |-> R.before[p].hp - R.hpAfterDamage[p]])
           = Cardinality(AttacksMade)

\* an attacker that dies in the round of its Attack, the Attack costing its target 1 hp
C9_Witness ==
    /\ Resolved
    /\ \E a \in AttacksMade :
         /\ players[a].isDead
         /\ R.damageMap[Target(a)] = 1
         /\ players[Target(a)].hp = R.before[Target(a)].hp - 1
         /\ ~players[Target(a)].isDead

Alive == {id \in DOMAIN players : ~players[id].isDead}
\* the winner of the last 'GAME SET! Winner:' line logged
IsLastGameSet(i) ==
    /\ logs[i][1] = "GameSet"
    /\ \A j \in (i + 1)..Len(logs) : logs[j][1] # "GameSet"
DeclaredWinner(w) == \E i \in 1..Len(logs) : IsLastGameSet(i) /\ logs[i][2] = w

\* C10: after every resolution, when at most one participant is alive the match is over
\* and the declared winner is the survivor, or 'No One (Draw)' when nobody is alive.
C10_OverWhenAtMostOneAlive ==
    Resolved =>
      (Cardinality(Alive) <= 1 =>
         /\ isGameOver
         /\ IF Cardinality(Alive) = 1
            THEN \A id \in Alive : DeclaredWinner(players[id].name)
            ELSE DeclaredWinner("No One (Draw)"))

\* the last living participants die in the same round: a draw
C10_Witness ==
    /\ Resolved
    /\ Cardinality(LivingAtStart) >= 2
    /\ Alive = {}
    /\ isGameOver
    /\ DeclaredWinner("No One (Draw)")

(* ======== termination and the turn barrier ======== *)
\* the participants of the last round that the instant death check left dead
DiedInstantly == {p \in LivingAtStart : R.afterInstant[p].isDead}

\* C11: when two of three living participants die in the instant death check of a round,
\* the match is over with the third as the declared winner, and the timer phase of that
\* round neither kills the third nor changes the declared result.
C11_InstantWinnerIsFinal ==
    (Resolved /\ Cardinality(LivingAtStart) = 3 /\ Cardinality(DiedInstantly) = 2) =>
      \A w \in LivingAtStart \ DiedInstantly :
         /\ R.overAfterInstant
         /\ isGameOver
         /\ ~players[w].isDead
         /\ DeclaredWinner(players[w].name)

\* the 'GAME SET! Winner:' lines logged so far
GameSetLines == SelectSeq(logs, LAMBDA line : line[1] = "GameSet")

\* what a resolution changes of participant id
Fields(ps, id) ==
    [hp |-> ps[id].hp, eggs |-> ps[id].eggs, history |-> ps[id].history,
     isDead |-> ps[id].isDead]

\* C12: once the match of the N-player engine is over, no step resolves a round: no step
\* changes the turn, the hp, eggs, history or isDead of a participant, the declared result
\* or isGameOver.
C12_OverIsTerminal ==
    [][(variant \in {"nplayer", "online"} /\ isGameOver) =>
         /\ isGameOver'
         /\ resolved' = resolved
         /\ turn' = turn
         /\ GameSetLines' = GameSetLines
         /\ \A id \in DOMAIN players :
              id \in DOMAIN players' /\ Fields(players', id) = Fields(players, id)]_vars

\* history has three Sausage entries in a row
ThreeSausages(history) ==
    \E i \in 1..(Len(history) - 2) :
       history[i] = SAUSAGE /\ history[i + 1] = SAUSAGE /\ history[i + 2] = SAUSAGE

\* C13: the authority of the N-player engine holds no pending Sausage of a participant
\* whose last two committed moves are both Sausage, and no participant's history has
\* three Sausage entries in a row.
C13_SausageLimitRevalidated ==
    (variant \in {"nplayer", "online"}) =>
      \A id \in DOMAIN players :
         /\ players[id].currentMove = SAUSAGE => canUseSausage(players[id])
         /\ ~ThreeSausages(players[id].history)

NPlayer == variant \in {"nplayer", "online"}
\* the living participants of the authority that have no pending move
Uncommitted == {id \in Alive : players[id].currentMove = Null}

\* a step of the authority that resolves a round: every participant living at the start
\* of resolveTurn has a pending move, the round resolved is the current one, and the step
\* leaves those participants without pending move and target, and the turn one higher
ResolvesWhenReady ==
    resolved' # resolved =>
      /\ resolved' # <<>>
      /\ resolved'[1].turn = turn
      /\ turn' = turn + 1
      /\ \A id \in Range(resolved'[1].living) :
           /\ resolved'[1].before[id].currentMove # Null
           /\ players'[id].currentMove = Null
           /\ players'[id].targetId = Null

\* C14: in the N-player engine a round is resolved only when every living participant has
\* a pending move, and inside the commit that makes this so: no state is left with every
\* living participant committed.  The resolution clears the pending move and target of
\* the participants living at its start and raises turn by exactly 1, and turn changes in
\* no other way, so that no round number is resolved twice.
C14_ResolvedExactlyWhenReady ==
    /\ [](NPlayer /\ Alive # {} => Uncommitted # {})
    /\ [][NPlayer => (ResolvesWhenReady /\ (turn' # turn => resolved' # resolved))]_vars

\* the last of three living participants has committed and round 2 is resolved
C14_Witness ==
    /\ Resolved
    /\ R.turn = 2 /\ turn = 3
    /\ Cardinality(LivingAtStart) = 3
    /\ \A id \in LivingAtStart : Committed(id) # Null /\ players[id].currentMove = Null

(* ======== participants ======== *)
\* C15: in the N-player authority a participant that is dead is dead after every step.
C15_DeadStaysDead ==
    [][NPlayer => \A id \in DOMAIN players :
                    players[id].isDead => (id \in DOMAIN players' /\ players'[id].isDead)]_vars

\* C16: the hp of every participant of the N-player engine, dead or alive, is an integer
\* of 0..MAX_HP.
C16_HpInRange ==
    NPlayer => \A id \in DOMAIN players : players[id].hp \in 0..MAX_HP

(* ======== determinism ======== *)
\* the orders in which a Map with the keys of s can iterate
Perms(s) ==
    {p \in [1..Len(s) -> Range(s)] : \A i, j \in 1..Len(s) : p[i] = p[j] => i = j}

\* what C17 compares of an engine state
PostRound(E) ==
    [turn |-> E.turn, over |-> E.isGameOver,
     players |-> [id \in DOMAIN E.players |->
                    [hp |-> E.players[id].hp, eggs |-> E.players[id].eggs,
                     isDead |-> E.players[id].isDead]]]

\* the engine at the start of the last resolveTurn, with the participant map iterating
\* in the order perm
AtStart(perm) ==
    [Engine EXCEPT !.players = R.before, !.order = perm, !.turn = R.turn,
                   !.isGameOver = R.overBefore]

\* C17: the turn, isGameOver and every participant's hp, eggs and isDead after a resolution
\* are those resolveTurn computes from the participants and their committed moves and
\* targets at its start, under every iteration order of the participant map.
C17_ResolutionDeterministic ==
    Resolved =>
      \A perm \in Perms(order) : PostRound(resolveTurn(AtStart(perm))) = PostRound(Engine)

\* a round of three participants in which two of them aimed different moves at the third
C17_Witness ==
    /\ Resolved
    /\ Cardinality(LivingAtStart) = 3
    /\ \E d \in LivingAtStart :
         /\ Cardinality(Aimed(ATTACK, d)) = 1
         /\ Cardinality(Aimed(EGG, d)) = 1
         /\ Committed(d) = SAUSAGE
         /\ HeldEggAtStart(d)

(* ======== authority and replica ======== *)
\* what a resolution would change of the engine E
RoundState(E) ==
    [turn |-> E.turn,
     players |-> [id \in DOMAIN E.players |-> Fields(E.players, id)]]

\* the guest's engine has resolved nothing and holds no pending move
NeverResolved(E) ==
    /\ E.resolved = <<>>
    /\ \A id \in DOMAIN E.players :
         E.players[id].currentMove = Null /\ E.players[id].targetId = Null

\* C18: the guest's engine never runs resolveTurn and never holds a pending move; a step
\* that changes it either takes a state message of the host off the channel, or appends
\* the waiting line to its log and changes neither its turn nor the hp, eggs, history or
\* isDead of a participant.
C18_ReplicaNeverResolves ==
    /\ [](variant = "online" => NeverResolved(replica))
    /\ [][(variant = "online" /\ replica' # replica) =>
             \/ channel # <<>> /\ channel' = Tail(channel)
             \/ /\ RoundState(replica') = RoundState(replica)
                /\ replica' = [replica EXCEPT !.logs = Append(@, <<"Waiting">>)]]_vars

\* the guest has committed a move in round 2 and waits for the host
C18_Witness ==
    /\ variant = "online"
    /\ replica.turn = 2
    /\ ~replicaButtons
    /\ replica.logs # <<>>
    /\ replica.logs[Len(replica.logs)] = <<"Waiting">>
    /\ NeverResolved(replica)

\* the guest takes a state message off the channel
SnapshotApplied == variant = "online" /\ channel # <<>> /\ channel' = Tail(channel)

\* the engine E has the turn, isGameOver and logs of the state message data, and every
\* participant of data with its hp, eggs, history and isDead
Mirrors(E, data) ==
    /\ E.turn = data.turn
    /\ E.isGameOver = data.isGameOver
    /\ E.logs = data.logs
    /\ \A k \in 1..Len(data.players) :
         /\ data.players[k].id \in DOMAIN E.players
         /\ Fields(E.players, data.players[k].id) =
              [hp |-> data.players[k].hp, eggs |-> data.players[k].eggs,
               history |-> data.players[k].history, isDead |-> data.players[k].isDead]

\* the host puts a state message on the channel
SnapshotSent == variant = "online" /\ Len(channel') > Len(channel)

\* C19: a state message is put on the channel as the serializeState of the authority at
\* the end of the host's step, and after the guest applied a state message its turn,
\* isGameOver and logs, and the hp, eggs, history and isDead of every participant of the
\* message, are those of the message; the participants the guest did not know are created.
C19_SnapshotMirrorsAuthority ==
    /\ [][SnapshotSent => channel' = Append(channel, serializeState(Engine'))]_vars
    /\ [][SnapshotApplied => Mirrors(replica', Head(channel))]_vars

\* the guest has applied the state after round 2, in which it holds an egg and the host
\* is dead
C19_Witness ==
    /\ variant = "online"
    /\ channel = <<>>
    /\ turn = 3
    /\ Mirrors(replica, serializeState(Engine))
    /\ replica.players[GuestId].eggs # <<>>
    /\ Len(replica.players[GuestId].history) = 2
    /\ replica.players[HostId].isDead

\* C20: the authority of the N-player engine has broadcast one state when the match
\* starts; a step that resolves a round broadcasts exactly one state, the serializeState of
\* the authority after the resolution; and no other step broadcasts but the join of a peer.
C20_SnapshotPerRound ==
    /\ (NPlayer => sent = [n |-> 1, state |-> serializeState(Engine)])
    /\ [][(NPlayer /\ resolved' # resolved) =>
             sent' = [n |-> sent.n + 1, state |-> serializeState(Engine')]]_vars
    /\ [][(NPlayer /\ sent' # sent) => (resolved' # resolved \/ joins' = joins + 1)]_vars

\* the state broadcast after round 2 of an online match, with a participant it killed
C20_Witness ==
    /\ variant = "online"
    /\ resolved # <<>> /\ R.turn = 2 /\ turn = 3
    /\ joins = 1
    /\ sent.n = 4
    /\ sent.state.turn = 3
    /\ \E k \in 1..Len(sent.state.players) :
         sent.state.players[k].isDead /\ ~R.before[sent.state.players[k].id].isDead

(* ======== connections and messages ======== *)
\* C21: in the online game every participant other than the host whose connection is
\* closed is dead for the authority, so that the rounds do not wait for its commit.
C21_DisconnectedNotLiving ==
    variant = "online" =>
      \A id \in DOMAIN players \ {myId} : id \notin conns => players[id].isDead

\* the oldest move message of the guest arrives at the host
MoveArrived == variant = "online" /\ outbox # <<>> /\ outbox' = Tail(outbox) /\ conns' = conns

\* C22: a move message of the guest that was sent in a round the authority has already
\* resolved changes no participant's pending move or target and resolves nothing.
C22_LateCommitIgnored ==
    [][(MoveArrived /\ Head(outbox).sentIn \in 1..(turn - 1)) =>
         (players' = players /\ resolved' = resolved /\ turn' = turn)]_vars

\* a connection of the guest's peer opens on the host
PeerJoined == variant = "online" /\ joins' = joins + 1

C24_InvalidActorRejected ==
    (NPlayer /\ isHost) =>
      \A id \in DOMAIN players \cup {UnknownId}, action \in Move,
         targetId \in DOMAIN players \cup {Null, UnknownId} :
           (id \notin DOMAIN players \/ players[id].isDead) =>
              registerMove(Engine, id, action, targetId) = Engine

\* the connection of a dead guest is open while the host, alive, has not committed
C24_Witness ==
    /\ variant = "online"
    /\ GuestId \in conns
    /\ GuestId \in DOMAIN players
    /\ players[GuestId].isDead
    /\ ~players[HostId].isDead
    /\ players[HostId].currentMove = Null
    /\ turn <= TurnCap + 1

\* the ids a move message can name as its target that are no living participant
NoTarget == {id \in DOMAIN players : players[id].isDead} \cup {UnknownId}

\* C25: in the online game, registerMove for the Attack or Egg of a living guest at a
\* target id that is no participant, or that of a dead participant, returns the engine
\* as it was: the move is not the guest's pending move and does not count as a commit.
C25_InvalidTargetRejected ==
    variant = "online" =>
      \A source \in conns \cap Alive, action \in {ATTACK, EGG}, targetId \in NoTarget :
         registerMove(Engine, source, action, targetId) = Engine

(* -------- what observers see of a resolution -------- *)
\* the notifications of a kind that the last resolution emitted
Notices(type) == SelectSeq(R.notified, LAMBDA n : n.type = type)

\* the state of the engine when the last resolution returned
FinalState(n) ==
    n.turn = R.turn + 1 /\ n.players = R.after /\ n.isGameOver = isGameOver

\* the part about 'update': onStateChange('update') is called exactly once by a resolution, with the final
\* state of the round in the engine.
C26_UpdateOnceAndFinal ==
    Resolved => (Len(Notices("update")) = 1 /\ FinalState(Notices("update")[1]))

\* C26: every 'update' and 'gameover' notification of a resolution is emitted when the
\* engine holds the final state of the round (pending moves cleared, round incremented),
\* and 'update' is emitted exactly once.
C26_ResolutionAtomic ==
    Resolved => /\ \A k \in DOMAIN R.notified : FinalState(R.notified[k])
                /\ Len(Notices("update")) = 1

(* -------- eggs held and moves remembered -------- *)
\* C27: on the N-player authority every participant, living or dead, holds at most one
\* egg in every reachable state.
C27_AtMostOneEgg ==
    NPlayer => \A id \in DOMAIN players : Len(players[id].eggs) <= 1

\* a participant that held an egg was given another one in the last round, was not
\* cured, and died at once with the one egg it held
C27_Witness ==
    /\ Resolved
    /\ \E id \in LivingAtStart :
         /\ Len(R.before[id].eggs) = 1
         /\ Len(R.afterInteraction[id].eggs) = 1
         /\ R.eggMap[id] + R.refEggMap[id] >= 1
         /\ players[id].isDead
         /\ Len(players[id].eggs) = 1

\* the last two entries of a history of two or more are both Sausage
LastTwoSausage(h) ==
    Len(h) >= 2 /\ h[Len(h)] = SAUSAGE /\ h[Len(h) - 1] = SAUSAGE

\* the participants of the authority and of the guest's replica
Everyone ==
    {players[id] : id \in DOMAIN players} \cup
    (IF variant = "online" THEN {replica.players[id] : id \in DOMAIN replica.players} ELSE {})

\* C28: canUseSausage is false exactly for a history of at least two entries whose last
\* two are both Sausage, for every participant of every reachable N-player state.
C28_SausageLimit ==
    NPlayer => \A p \in Everyone : canUseSausage(p) = ~LastTwoSausage(p.history)

\* one participant is refused Sausage after two in a row, another with a history of two
\* is allowed it, and a third history is shorter than two
C28_Witness ==
    /\ NPlayer
    /\ \E p \in Everyone : LastTwoSausage(p.history) /\ ~canUseSausage(p)
    /\ \E p \in Everyone : /\ Len(p.history) >= 2 /\ p.history[Len(p.history)] = SAUSAGE
                             /\ ~LastTwoSausage(p.history) /\ canUseSausage(p)
    /\ \E p \in Everyone : Len(p.history) < 2 /\ canUseSausage(p)

\* C29: a resolution appends the committed move, and nothing else, to the history of
\* every participant living at its start, and leaves every other history as it was; no
\* earlier entry is removed or rewritten.
C29_HistoryAppendOnly ==
    Resolved =>
      \A id \in DOMAIN R.before :
         R.after[id].history =
            IF id \in LivingAtStart
            THEN Append(R.before[id].history, Committed(id))
            ELSE R.before[id].history

\* a round was resolved with a dead participant and a living one that had a history
C29_Witness ==
    /\ Resolved
    /\ \E id \in DOMAIN R.before : R.before[id].isDead /\ R.before[id].history # <<>>
    /\ \E id \in LivingAtStart :
         /\ R.before[id].history # <<>>
         /\ Len(players[id].history) = Len(R.before[id].history) + 1

(* -------- a state message that cannot be applied -------- *)
\* a step of a guest that has the match on its screen, that is no click and takes no
\* message of the host from the channel: the arrival of a state message without
\* participants
MalformedArrived ==
    /\ variant = "online"
    /\ GuestId \in DOMAIN replica.players
    /\ UNCHANGED <<players, order, turn, isGameOver, logs, conns, channel, sent, joins,
                   replicaButtons, outbox>>

\* the replica's turn, isGameOver, logs and participants are as before
Unmerged ==
    /\ replica'.turn = replica.turn
    /\ replica'.isGameOver = replica.isGameOver
    /\ replica'.logs = replica.logs
    /\ replica'.players = replica.players

\* C30: a state message without a participants list, which cannot be applied completely,
\* leaves the replica's turn, isGameOver, logs and participants exactly as before.
C30_NoPartialMerge == [][MalformedArrived => Unmerged]_vars

(* -------- the end of the match, as announced -------- *)
\* C31: over a whole match of the N-player engine the 'GAME SET! Winner' line is logged
\* at most once and the 'gameover' callback is called at most once, so never with two
\* different results.
C31_GameOverOnce ==
    NPlayer => /\ Len(GameSetLines) <= 1
               /\ Resolved => Len(Notices("gameover")) <= 1

(* -------- the two peers of a 2-player online match -------- *)
\* the two participants as the peer's engine holds them: its 'player' is the opponent here
Swapped(ps) == [player |-> ps.opponent, opponent |-> ps.player]

\* the last round as the peer's engine resolves it: from the mirrored state, with its own
\* move as playerMove
PeerRound ==
    Round([Duel EXCEPT !.ps = Swapped(R.before), !.turn = R.turn, !.isGameOver = FALSE],
          R.moves.opponent, R.moves.player, FALSE)

\* what the claim compares of a participant
HpAndEggs(p) == [hp |-> p.hp, eggs |-> p.eggs]

\* C32: after every round of a 2-player online match, the peer's engine, which resolved
\* the same two moves from the mirrored state with the roles swapped, holds the same hp
\* and eggs for both participants as this engine.
C32_PeersAgree ==
    (variant = "duelOnline" /\ resolved # <<>>) =>
       /\ HpAndEggs(PeerRound.ps.opponent) = HpAndEggs(player)
       /\ HpAndEggs(PeerRound.ps.player) = HpAndEggs(opponent)

(* -------- double knockout in the 2-player variants -------- *)
\* the two participants of a 2-player variant by role
Both == [player |-> player, opponent |-> opponent]

\* the last round logged a DOUBLE KO
DoubleKO == \E k \in (R.logStart + 1)..Len(logs) : logs[k][1] = "DoubleKO"

\* after a double knockout both participants have hp 1 and no eggs and the match goes on;
\* no match is over with both participants at hp <= 0
DoubleKOResets ==
    /\ (Resolved2 /\ DoubleKO) =>
          (~isGameOver /\ \A r \in Roles : Both[r].hp = 1 /\ Both[r].eggs = <<>>)
    /\ (Resolved2 /\ isGameOver) => \E r \in Roles : Both[r].hp > 0

\* C33: after a round of a 2-player variant with a double knockout the match is not
\* over and both participants have hp = 1, no eggs and isDead = false.
C33_DoubleKOContinues ==
    (Resolved2 /\ DoubleKO) =>
       /\ ~isGameOver
       /\ \A r \in Roles : Both[r].hp = 1 /\ Both[r].eggs = <<>> /\ ~Both[r].isDead

(* -------- the dead and their hp -------- *)
\* C34: after every completed resolution of the N-player engine, each participant is
\* dead if and only if its hp is at most 0.
C34_DeadIffNoHp ==
    Resolved => \A id \in DOMAIN R.after : R.after[id].isDead <=> R.after[id].hp <= 0

\* the last round killed one participant by its egg, after the instant check, and
\* another is still alive
C34_Witness ==
    /\ Resolved
    /\ \E id \in LivingAtStart : ~R.afterInstant[id].isDead /\ R.after[id].isDead
    /\ \E id \in LivingAtStart : ~R.after[id].isDead

(* -------- moves that reach nobody -------- *)
\* the Eggs of the round by a living participant at another living participant
EggsMade == {a \in LivingAtStart : Committed(a) = EGG /\ Target(a) \in LivingAtStart \ {a}}

\* the Attacks and Eggs of the round aimed at the participant itself, at null, at an id
\* of no participant or at a dead participant
Missed ==
    {a \in LivingAtStart : Committed(a) \in {ATTACK, EGG} /\ Target(a) \notin LivingAtStart \ {a}}

\* the eggs counted for p in the interaction phase, new and reflected
EggsCounted == [p \in LivingAtStart |-> R.eggMap[p] + R.refEggMap[p]]

\* C35: in a round of the N-player engine the damage counted over all participants is
\* the number of Attacks, and the eggs counted the number of Eggs, aimed at another living
\* participant, so a move aimed at the participant itself, at null, at an unknown id or at
\* a dead participant adds nothing to anyone; and the round leaves the hp and the eggs of
\* every participant that was dead at its start as they were.
C35_MissedMovesNoEffect ==
    Resolved =>
      /\ SumOver(LivingAtStart, R.damageMap) = Cardinality(AttacksMade)
      /\ SumOver(LivingAtStart, EggsCounted) = Cardinality(EggsMade)
      /\ (AttacksMade \cup EggsMade = {}) =>
            \A p \in LivingAtStart : R.damageMap[p] = 0 /\ EggsCounted[p] = 0
      /\ \A d \in DOMAIN R.before \ LivingAtStart :
            R.after[d].hp = R.before[d].hp /\ R.after[d].eggs = R.before[d].eggs

\* a round with a move aimed at an id of no participant and an Attack that landed
C35_Witness ==
    /\ Resolved
    /\ \E a \in Missed : Target(a) = UnknownId
    /\ AttacksMade # {}

(* -------- the reflected egg -------- *)
\* participant id of ps holds a reflected egg and no other
HoldsReflected(ps, id) == Len(ps[id].eggs) = 1 /\ ps[id].eggs[1].isReflected

\* a holder of a reflected egg that commits Sausage keeps the egg through the interaction
\* phase, and every Attack aimed at it is counted as damage on it
SausageKeepsReflected ==
    \A p \in LivingAtStart :
       (HoldsReflected(R.before, p) /\ Committed(p) = SAUSAGE) =>
          /\ R.afterInteraction[p].eggs = R.before[p].eggs
          /\ R.damageMap[p] = Cardinality(Aimed(ATTACK, p))
          /\ \A a \in Aimed(ATTACK, p) : R.damageMap[a] = AttacksLandingOn(a)

\* a participant that ends the round of its reflected egg alive holds it with 1 turn
\* remaining; a holder ends the next round dead or with 0 turns remaining, and the round
\* after that dead
ReflectedEggRunsOut ==
    \A p \in LivingAtStart :
       /\ (R.before[p].eggs = <<>> /\ HoldsReflected(R.after, p) /\ ~R.after[p].isDead) =>
             R.after[p].eggs[1].turnsRemaining = 1
       /\ HoldsReflected(R.before, p) =>
             /\ R.before[p].eggs[1].turnsRemaining \in {0, 1}
             /\ \/ R.after[p].isDead
                \/ /\ R.before[p].eggs[1].turnsRemaining = 1
                   /\ R.after[p].eggs = <<[isReflected |-> TRUE, turnsRemaining |-> 0]>>

\* between two resolutions nothing but a connection changes the eggs of a participant
\* or whether it is dead
EggsKept ==
    (NPlayer /\ resolved' = resolved /\ joins' = joins) =>
       \A id \in DOMAIN players :
          /\ id \in DOMAIN players'
          /\ players'[id].eggs = players[id].eggs
          /\ players'[id].isDead = players[id].isDead

DiedInRound == {p \in LivingAtStart : R.after[p].isDead}

\* C37: a resolution of the N-player engine in which no participant dies does not set
\* isGameOver: a match that the last round ended lost a participant in that round.
C37_OverOnlyByDeath ==
    (Resolved /\ ~R.overBefore /\ isGameOver) => DiedInRound # {}

====
